---- MODULE Spec2Model ----
(***************************************************************************)
(* Model of the legal-document pipeline of nlp-legal-parser:               *)
(*   src/document_type_detector.py  (rule-driven detector, analyze_document)*)
(*   src/detect_doc_type.py         (hard-coded detector, build_summary)    *)
(* Python str values are TLA+ strings; TLC evaluates Len, SubSeq and \o on  *)
(* them, so every string function below works character by character.      *)
(***************************************************************************)
EXTENDS Integers, Sequences, FiniteSets, TLC

VARIABLES
    pc,                  \* position of the run
    script,              \* which of the two pipeline scripts is running
    rules_file,          \* document_rules.yml: [exists, document_types]
    document_type_rules, \* module global set by load_rules()
    text,                \* doc.text
    detected_type,       \* doc._.document_type
    scanned,             \* number of rule entries the detector loop visited
    raw,                 \* one raw entity mention (ent.text)
    clean,               \* normalize_entity(raw)
    ents,                \* doc.ents: sequence of [label, text]
    entities,            \* the label -> list mapping handed on / persisted
    summary,             \* the summary dict
    file_path,           \* path given to process_document / rename_file
    rename,              \* the rename flag of process_document
    os_rename,           \* os.rename in this run: not_called, succeeded or failed
    fs_path,             \* where the source file is on disk
    returned,            \* rename_file's return value
    raised,              \* exception that escaped, or "none"
    record               \* the JSON record written to output/, or NoRecord

vars == <<pc, script, rules_file, document_type_rules, text, detected_type,
          scanned, raw, clean, ents, entities, summary, file_path, rename,
          os_rename, fs_path, returned, raised, record>>

-----------------------------------------------------------------------------
(* Bounds of the model *)

MaxRules == 3
MaxTextLen == 3
MaxLen == 4
MaxMentions == 3
MaxItems == 4
MaxEnts == 2

-----------------------------------------------------------------------------
(* Python str primitives *)

CodePoints == "\t\n ,-./0123456789ABCDEFGHIJKLMNOPQRSTUVWXYZ_abcdefghijklmnopqrstuvwxyz"
Uppers == "ABCDEFGHIJKLMNOPQRSTUVWXYZ"
Lowers == "abcdefghijklmnopqrstuvwxyz"
Digits == "0123456789"
Whitespace == {" ", "\t", "\n"}

CharAt(s, i) == SubSeq(s, i, i)

Chars(s) == {CharAt(s, i) : i \in 1..Len(s)}

IndexOf(c, s) == CHOOSE i \in 1..Len(s) : CharAt(s, i) = c

\* ord(c): position in code-point order (only the order matters)
OrdTable == [c \in Chars(CodePoints) |-> IndexOf(c, CodePoints)]
Ord(c) == OrdTable[c]

LowerTable == [c \in Chars(Uppers) |-> CharAt(Lowers, IndexOf(c, Uppers))]
LowerChar(c) == IF c \in DOMAIN LowerTable THEN LowerTable[c] ELSE c

RECURSIVE Lower(_)
Lower(s) == IF s = "" THEN "" ELSE LowerChar(CharAt(s, 1)) \o Lower(Tail(s))

\* k in t
IsSubstring(k, t) == \E i \in 0..(Len(t) - Len(k)) : SubSeq(t, i + 1, i + Len(k)) = k

\* s < t for Python str
RECURSIVE StrLess(_, _)
StrLess(s, t) ==
    IF t = "" THEN FALSE
    ELSE IF s = "" THEN TRUE
    ELSE IF CharAt(s, 1) = CharAt(t, 1) THEN StrLess(Tail(s), Tail(t))
    ELSE Ord(CharAt(s, 1)) < Ord(CharAt(t, 1))

RECURSIVE StringsUpTo(_, _)
StringsUpTo(alphabet, n) ==
    IF n = 0 THEN {""}
    ELSE LET shorter == StringsUpTo(alphabet, n - 1)
         IN  shorter \cup {s \o c : s \in shorter, c \in alphabet}

RECURSIVE SeqsUpTo(_, _)
SeqsUpTo(S, n) ==
    IF n = 0 THEN {<<>>}
    ELSE LET shorter == SeqsUpTo(S, n - 1)
         IN  shorter \cup {Append(q, x) : q \in shorter, x \in S}

-----------------------------------------------------------------------------
(* Rule store and document type detector *)

ScriptRules == "document_type_detector.py"
ScriptFixed == "detect_doc_type.py"
Scripts == {ScriptRules, ScriptFixed}

Unknown == "Unknown"

\* dict keys are distinct: entry i of a configuration carries the i-th name
TypeNames == <<"Motion", "Affidavit", "Complaint", "Notice of Hearing", "Order">>

KeywordLists == {<<>>, <<"a">>, <<"B">>, <<"a", "B">>, <<"B", "ab">>}

RuleSets ==
    {[i \in 1..Len(q) |-> [doc_type |-> TypeNames[i], keywords |-> q[i]]] :
        q \in SeqsUpTo(KeywordLists, MaxRules)}

SampleTexts == {"Motion to Dismiss", "a motion", "AFFIDAVIT", "Complaint",
                "notice of hearing", "Exhibit"}

Texts == StringsUpTo({"a", "A", "b"}, MaxTextLen) \cup SampleTexts

load_rules == IF rules_file.exists THEN rules_file.document_types ELSE <<>>

\* faulty variant: the keyword is compared without lower-casing it
AllKeywordsCaseSensitive(keywords, lowered) ==
    \A j \in 1..Len(keywords) : IsSubstring(keywords[j], lowered)

AllKeywords(keywords, lowered) ==
    \A j \in 1..Len(keywords) : IsSubstring(Lower(keywords[j]), lowered)

AnyKeyword(keywords, lowered) ==
    \E j \in 1..Len(keywords) : IsSubstring(Lower(keywords[j]), lowered)

\* faulty variant: a partial match is kept once found (first partial match wins)
RECURSIVE ScanRulesFirstPartial(_, _, _, _)
ScanRulesFirstPartial(rules, lowered, i, detected) ==
    IF i > Len(rules) THEN [detected_type |-> detected, scanned |-> Len(rules)]
    ELSE IF AllKeywords(rules[i].keywords, lowered)
         THEN [detected_type |-> rules[i].doc_type, scanned |-> i]
    ELSE IF AnyKeyword(rules[i].keywords, lowered) /\ detected = "Unknown"
         THEN ScanRulesFirstPartial(rules, lowered, i + 1, rules[i].doc_type)
    ELSE ScanRulesFirstPartial(rules, lowered, i + 1, detected)

\* the for loop of document_type_detector, from entry i on
RECURSIVE ScanRules(_, _, _, _)
ScanRules(rules, lowered, i, detected) ==
    IF i > Len(rules) THEN [detected_type |-> detected, scanned |-> Len(rules)]
    ELSE IF AllKeywords(rules[i].keywords, lowered)
         THEN [detected_type |-> rules[i].doc_type, scanned |-> i]
    ELSE IF AnyKeyword(rules[i].keywords, lowered)
         THEN ScanRules(rules, lowered, i + 1, rules[i].doc_type)
    ELSE ScanRules(rules, lowered, i + 1, detected)

document_type_detector(rules, t) == ScanRules(rules, Lower(t), 1, Unknown)

\* the if/elif chain of detect_doc_type.py
fixed_document_type_detector(t) ==
    LET lowered == Lower(t) IN
    IF IsSubstring("motion to dismiss", lowered) THEN "Motion to Dismiss"
    ELSE IF IsSubstring("motion", lowered) THEN "Motion"
    ELSE IF IsSubstring("affidavit", lowered) THEN "Affidavit"
    ELSE IF IsSubstring("complaint", lowered) THEN "Complaint"
    ELSE IF IsSubstring("notice of hearing", lowered) THEN "Notice of Hearing"
    ELSE Unknown

-----------------------------------------------------------------------------
(* Entity normalizer *)

RECURSIVE LStrip(_, _)
LStrip(s, cs) ==
    IF s # "" /\ CharAt(s, 1) \in cs THEN LStrip(Tail(s), cs) ELSE s

RECURSIVE RStrip(_, _)
RStrip(s, cs) ==
    IF s # "" /\ CharAt(s, Len(s)) \in cs
    THEN RStrip(SubSeq(s, 1, Len(s) - 1), cs) ELSE s

\* str.strip(chars); str.strip() is Strip(s, Whitespace)
Strip(s, cs) == RStrip(LStrip(s, cs), cs)

\* str.replace(old, new) for single characters
RECURSIVE Replace(_, _, _)
Replace(s, old, new) ==
    IF s = "" THEN ""
    ELSE (IF CharAt(s, 1) = old THEN new ELSE CharAt(s, 1)) \o Replace(Tail(s), old, new)

\* re.sub(r"\s+", " ", s)
RECURSIVE CollapseWhitespace(_)
CollapseWhitespace(s) ==
    IF s = "" THEN ""
    ELSE IF CharAt(s, 1) \in Whitespace
         THEN " " \o CollapseWhitespace(LStrip(s, Whitespace))
    ELSE CharAt(s, 1) \o CollapseWhitespace(Tail(s))

\* faulty variant: the final strip leaves spaces in place
normalize_entity_keep_space(t) ==
    Strip(CollapseWhitespace(Replace(Strip(t, Whitespace), "\n", " ")), {",", "."})

normalize_entity(t) ==
    Strip(CollapseWhitespace(Replace(Strip(t, Whitespace), "\n", " ")), {",", ".", " "})

\* sorted(set(v)) on strings
RECURSIVE SortedSet(_)
SortedSet(S) ==
    IF S = {} THEN <<>>
    ELSE LET least == CHOOSE x \in S : \A y \in S \ {x} : StrLess(x, y)
         IN  <<least>> \o SortedSet(S \ {least})

ToSet(q) == {q[i] : i \in 1..Len(q)}

Labels == {"PERSON", "ORG", "DATE"}

\* dict.get(key, []) on a label -> list mapping
Get(d, label) == IF label \in DOMAIN d THEN d[label] ELSE <<>>

\* the loop of detect_doc_type.process_document: per label, the cleaned,
\* non-empty mentions in document order
RECURSIVE CleanMentions(_, _)
CleanMentions(es, label) ==
    IF es = <<>> THEN <<>>
    ELSE LET ent == Head(es)
             c == normalize_entity(ent.text)
         IN  (IF ent.label = label /\ c # "" THEN <<c>> ELSE <<>>)
                 \o CleanMentions(Tail(es), label)

\* entity_summary of detect_doc_type.process_document, de-duplicated and sorted
normalized_entity_summary(es) ==
    LET seen == {l \in Labels : CleanMentions(es, l) # <<>>}
    IN  [l \in seen |-> SortedSet(ToSet(CleanMentions(es, l)))]

\* the loop of document_type_detector.analyze_document: ent.text.strip() appended
RECURSIVE StrippedMentions(_, _)
StrippedMentions(es, label) ==
    IF es = <<>> THEN <<>>
    ELSE LET ent == Head(es)
         IN  (IF ent.label = label THEN <<Strip(ent.text, Whitespace)>> ELSE <<>>)
                 \o StrippedMentions(Tail(es), label)

raw_entity_summary(es) ==
    LET seen == {es[i].label : i \in 1..Len(es)}
    IN  [l \in seen |-> StrippedMentions(es, l)]

\* a label -> list mapping read back as a mention sequence
RECURSIVE ItemsAsMentions(_, _)
ItemsAsMentions(label, items) ==
    IF items = <<>> THEN <<>>
    ELSE <<[label |-> label, text |-> Head(items)]>> \o ItemsAsMentions(label, Tail(items))

MentionsOf(d) ==
    ItemsAsMentions("PERSON", Get(d, "PERSON"))
        \o ItemsAsMentions("ORG", Get(d, "ORG"))
        \o ItemsAsMentions("DATE", Get(d, "DATE"))

-----------------------------------------------------------------------------
(* Summary builder *)

RECURSIVE SkipToken(_)
SkipToken(s) ==
    IF s # "" /\ CharAt(s, 1) \notin Whitespace THEN SkipToken(Tail(s)) ELSE s

\* len(item.split()): number of maximal runs of non-whitespace characters
RECURSIVE TokenCount(_)
TokenCount(s) ==
    LET t == LStrip(s, Whitespace)
    IN  IF t = "" THEN 0 ELSE 1 + TokenCount(SkipToken(t))

\* the inner for loop of build_summary over one label's items, from item i on
RECURSIVE CollectParties(_, _, _)
CollectParties(items, i, parties) ==
    IF i > Len(items) THEN parties
    ELSE LET p == IF TokenCount(items[i]) >= 2 THEN Append(parties, items[i]) ELSE parties
         IN  IF Len(p) = 2 THEN p ELSE CollectParties(items, i + 1, p)

\* faulty variant: the outer loop does not stop after PERSON filled both places
select_parties_no_outer_break(d) ==
    CollectParties(Get(d, "ORG"), 1, CollectParties(Get(d, "PERSON"), 1, <<>>))

\* the outer loop over ["PERSON", "ORG"]
select_parties(d) ==
    LET after_person == CollectParties(Get(d, "PERSON"), 1, <<>>)
    IN  IF Len(after_person) = 2 THEN after_person
        ELSE CollectParties(Get(d, "ORG"), 1, after_person)

PyNone == [type |-> "NoneType"]
PyStr(s) == [type |-> "str", value |-> s]

\* dateparser.parse on the date mentions of the model: a naive datetime, or None
NoDateParsed == [year |-> 0, month |-> 0, day |-> 0]
ParseTable ==
    <<[raw |-> "January 1, 1999", parsed |-> [year |-> 1999, month |-> 1, day |-> 1]],
      [raw |-> "Jan 1, 1900",     parsed |-> [year |-> 1900, month |-> 1, day |-> 1]],
      [raw |-> "July 4, 1850",    parsed |-> [year |-> 1850, month |-> 7, day |-> 4]],
      [raw |-> "Exhibit A",       parsed |-> NoDateParsed]>>

DateMentions == {ParseTable[i].raw : i \in 1..Len(ParseTable)}

dateparser_parse(raw_date) ==
    IF \E i \in 1..Len(ParseTable) : ParseTable[i].raw = raw_date
    THEN ParseTable[CHOOSE i \in 1..Len(ParseTable) : ParseTable[i].raw = raw_date].parsed
    ELSE NoDateParsed

MinYear == 1900

\* faulty variant: the year is not checked
RECURSIVE valid_parsed_dates_any_year(_)
valid_parsed_dates_any_year(raw_dates) ==
    IF raw_dates = <<>> THEN <<>>
    ELSE LET parsed == dateparser_parse(Head(raw_dates))
         IN  (IF parsed # NoDateParsed THEN <<parsed>> ELSE <<>>)
                 \o valid_parsed_dates_any_year(Tail(raw_dates))

\* the loop filling parsed_dates
RECURSIVE valid_parsed_dates(_)
valid_parsed_dates(raw_dates) ==
    IF raw_dates = <<>> THEN <<>>
    ELSE LET parsed == dateparser_parse(Head(raw_dates))
         IN  (IF parsed # NoDateParsed /\ parsed.year >= MinYear THEN <<parsed>> ELSE <<>>)
                 \o valid_parsed_dates(Tail(raw_dates))

\* datetime.__lt__
DateLess(a, b) ==
    \/ a.year < b.year
    \/ a.year = b.year /\ a.month < b.month
    \/ a.year = b.year /\ a.month = b.month /\ a.day < b.day

\* min(parsed_dates): the first of the smallest
RECURSIVE MinDate(_, _)
MinDate(dates, best) ==
    IF dates = <<>> THEN best
    ELSE MinDate(Tail(dates), IF DateLess(Head(dates), best) THEN Head(dates) ELSE best)

Digit(n) == CharAt(Digits, n + 1)
Pad2(n) == Digit(n \div 10) \o Digit(n % 10)
Pad4(n) == Pad2(n \div 100) \o Pad2(n % 100)

\* date.isoformat()
isoformat(d) == Pad4(d.year) \o "-" \o Pad2(d.month) \o "-" \o Pad2(d.day)

filing_date(d) ==
    LET parsed_dates == valid_parsed_dates(Get(d, "DATE"))
    IN  IF parsed_dates # <<>>
        THEN PyStr(isoformat(MinDate(Tail(parsed_dates), Head(parsed_dates))))
        ELSE PyNone

build_summary(d, doc_type_from_nlp) ==
    [document_type |-> doc_type_from_nlp,
     parties_involved |-> select_parties(d),
     date_filed |-> filing_date(d)]

\* summary dict of document_type_detector.analyze_document
RECURSIVE FirstDateMention(_)
FirstDateMention(es) ==
    IF es = <<>> THEN PyNone
    ELSE IF Head(es).label = "DATE" THEN PyStr(Head(es).text)
    ELSE FirstDateMention(Tail(es))

analyze_summary(es, doc_type) ==
    [document_type |-> doc_type,
     date_filed |-> FirstDateMention(es),
     entities |-> raw_entity_summary(es)]

-----------------------------------------------------------------------------
(* Naming resolver *)

WordChars == Chars(Uppers) \cup Chars(Lowers) \cup Chars(Digits) \cup {"_"}

RECURSIVE SkipNonWord(_)
SkipNonWord(s) ==
    IF s # "" /\ CharAt(s, 1) \notin WordChars THEN SkipNonWord(Tail(s)) ELSE s

\* re.sub(r"[^\w]+", "_", s)
RECURSIVE SubNonWord(_)
SubNonWord(s) ==
    IF s = "" THEN ""
    ELSE IF CharAt(s, 1) \notin WordChars THEN "_" \o SubNonWord(SkipNonWord(s))
    ELSE CharAt(s, 1) \o SubNonWord(Tail(s))

slugify(t) == Strip(SubNonWord(Strip(t, Whitespace)), {"_"})

\* str.rfind(c) + 1: 0 when c does not occur
RFind(s, c) ==
    LET hits == {i \in 1..Len(s) : CharAt(s, i) = c}
    IN  IF hits = {} THEN 0 ELSE CHOOSE i \in hits : \A j \in hits : j <= i

\* os.path.dirname, os.path.basename, os.path.splitext()[1], os.path.join
dirname(p) ==
    LET head == SubSeq(p, 1, RFind(p, "/"))
    IN  IF head # "" /\ Chars(head) # {"/"} THEN RStrip(head, {"/"}) ELSE head

basename(p) == SubSeq(p, RFind(p, "/") + 1, Len(p))

splitext_ext(p) ==
    LET sep == RFind(p, "/")
        dot == RFind(p, ".")
    IN  IF dot > sep /\ \E i \in (sep + 1)..(dot - 1) : CharAt(p, i) # "."
        THEN SubSeq(p, dot, Len(p)) ELSE ""

path_join(a, b) ==
    IF b # "" /\ CharAt(b, 1) = "/" THEN b
    ELSE IF a = "" \/ CharAt(a, Len(a)) = "/" THEN a \o b
    ELSE a \o "/" \o b

\* str(value) inside the f-string
Format(v) == IF v = PyNone THEN "None" ELSE v.value

\* new_filename of rename_file; the caller has checked that [0] exists
new_filename(path, s) ==
    LET first_party == IF "parties_involved" \in DOMAIN s
                       THEN s.parties_involved[1] ELSE "Unknown"
        client == Replace(first_party, " ", "_")
        doc_type == slugify(IF "document_type" \in DOMAIN s THEN s.document_type ELSE "Doc")
        date_str == IF "date_filed" \in DOMAIN s THEN Format(s.date_filed) ELSE "NoDate"
        practice == "Legal"
    IN  client \o " - " \o doc_type \o " - " \o practice \o " - " \o date_str
            \o splitext_ext(path)

\* faulty variant: the failure of os.rename is not caught
rename_file_uncaught(path, s, rename_succeeds) ==
    IF "parties_involved" \in DOMAIN s /\ s.parties_involved = <<>>
    THEN [raised |-> "IndexError", returned |-> "", fs_path |-> path,
          os_rename |-> "not_called"]
    ELSE LET new_path == path_join(dirname(path), new_filename(path, s))
         IN  IF rename_succeeds
             THEN [raised |-> "none", returned |-> new_path, fs_path |-> new_path,
                   os_rename |-> "succeeded"]
             ELSE [raised |-> "OSError", returned |-> "", fs_path |-> path,
                   os_rename |-> "failed"]

\* rename_file: what escapes, what is returned, where the file ends up.
\* [0] on an empty parties_involved raises IndexError before os.rename is called.
rename_file(path, s, rename_succeeds) ==
    IF "parties_involved" \in DOMAIN s /\ s.parties_involved = <<>>
    THEN [raised |-> "IndexError", returned |-> "", fs_path |-> path,
          os_rename |-> "not_called"]
    ELSE LET new_path == path_join(dirname(path), new_filename(path, s))
         IN  IF rename_succeeds
             THEN [raised |-> "none", returned |-> new_path, fs_path |-> new_path,
                   os_rename |-> "succeeded"]
             ELSE [raised |-> "none", returned |-> path, fs_path |-> path,
                   os_rename |-> "failed"]

-----------------------------------------------------------------------------
(* Inputs *)

NoRecord == [filename |-> "", written |-> FALSE]
NoSummary == [document_type |-> Unknown]
NoRulesFile == [exists |-> FALSE, document_types |-> <<>>]

RulesFiles == {NoRulesFile} \cup {[exists |-> TRUE, document_types |-> r] : r \in RuleSets}

NormAlphabet == {" ", "\t", "\n", ",", ".", "a"}

\* (label, text) pairs an annotator can hand over
MentionPool ==
    {[label |-> "PERSON", text |-> "John Smith"],
     [label |-> "PERSON", text |-> " John\nSmith."],
     [label |-> "PERSON", text |-> "Al"],
     [label |-> "PERSON", text |-> " ."],
     [label |-> "ORG",    text |-> "Acme Corp"],
     [label |-> "DATE",   text |-> "January 1, 1999"],
     [label |-> "DATE",   text |-> "Jan 1, 1900,"],
     [label |-> "DATE",   text |-> "Exhibit A"]}

PersonPool == {"John Smith", "Al", "A B"}
OrgPool == {"Acme Corp", "Acme"}

SeqsOfLen(S, n) == {q \in SeqsUpTo(S, n) : Len(q) = n}

\* entity mappings with at most MaxItems entries in all
EntityInputs ==
    UNION {{[PERSON |-> p, ORG |-> o, DATE |-> d] :
                p \in SeqsOfLen(PersonPool, n[1]),
                o \in SeqsOfLen(OrgPool, n[2]),
                d \in SeqsOfLen(DateMentions, n[3])} :
           n \in {m \in (0..MaxItems) \X (0..MaxItems) \X (0..MaxItems) :
                     m[1] + m[2] + m[3] <= MaxItems}}

FilePaths == {"case1.pdf", "docs/m 1.txt", "x.doc"}

SampleRules ==
    <<[doc_type |-> "Motion to Dismiss", keywords |-> <<"motion to dismiss">>],
      [doc_type |-> "Affidavit", keywords |-> <<"affidavit", "sworn">>]>>

\* summaries handed to rename_file directly: each key present or absent
SummaryInputs ==
    {[k \in ks |-> CASE k = "parties_involved" -> p
                     [] k = "document_type" -> t
                     [] k = "date_filed" -> d] :
        ks \in SUBSET {"parties_involved", "document_type", "date_filed"},
        p \in {<<>>, <<"Jane Doe">>, <<"Jane Doe", "John Smith">>},
        t \in {"", "Motion to Dismiss", Unknown},
        d \in {PyNone, PyStr("1999-01-01")}}

\* values of the variables a specification does not use
IdleClassifier ==
    /\ rules_file = NoRulesFile
    /\ document_type_rules = <<>>
    /\ text = ""
    /\ detected_type = Unknown
    /\ scanned = 0

IdleNormalizer ==
    /\ raw = ""
    /\ clean = ""

IdleEntities ==
    /\ ents = <<>>
    /\ entities = <<>>

IdleFiles ==
    /\ file_path = ""
    /\ rename = FALSE
    /\ os_rename = "not_called"
    /\ fs_path = ""
    /\ returned = ""
    /\ raised = "none"
    /\ record = NoRecord

-----------------------------------------------------------------------------
(* Classifier runs: module import (load_rules), then the detector on a text *)

InitClassify ==
    /\ pc = "import"
    /\ script \in Scripts
    /\ rules_file \in (IF script = ScriptRules THEN RulesFiles ELSE {NoRulesFile})
    /\ document_type_rules = <<>>
    /\ text \in Texts
    /\ detected_type = Unknown
    /\ scanned = 0
    /\ summary = NoSummary
    /\ IdleNormalizer /\ IdleEntities /\ IdleFiles

\* document_type_rules = load_rules()   (detect_doc_type.py has no rule store)
LoadRules ==
    /\ pc = "import"
    /\ document_type_rules' = (IF script = ScriptRules THEN load_rules ELSE <<>>)
    /\ pc' = "loaded"
    /\ UNCHANGED <<script, rules_file, text, detected_type, scanned, raw, clean, ents,
                   entities, summary, file_path, rename, os_rename, fs_path,
                   returned, raised, record>>

\* the pipeline component run by nlp(text)
Detected(t) ==
    IF script = ScriptRules THEN document_type_detector(document_type_rules, t)
    ELSE [detected_type |-> fixed_document_type_detector(t), scanned |-> 0]

Detect ==
    /\ pc = "loaded"
    /\ detected_type' = Detected(text).detected_type
    /\ scanned' = Detected(text).scanned
    /\ pc' = "detected"
    /\ UNCHANGED <<script, rules_file, document_type_rules, text, raw, clean, ents,
                   entities, summary, file_path, rename, os_rename, fs_path,
                   returned, raised, record>>

NextClassify == LoadRules \/ Detect

SpecClassify == InitClassify /\ [][NextClassify]_vars

-----------------------------------------------------------------------------
(* Normalizer runs: normalize_entity on one mention, or the normalization   *)
(* loop of detect_doc_type.process_document on a mention sequence           *)

InitNormalize ==
    /\ script = ScriptFixed
    /\ \/ /\ pc = "mention"
          /\ raw \in StringsUpTo(NormAlphabet, MaxLen)
          /\ ents = <<>>
       \/ /\ pc = "mentions"
          /\ raw = ""
          /\ ents \in SeqsUpTo(MentionPool, MaxMentions)
    /\ clean = ""
    /\ entities = <<>>
    /\ summary = NoSummary
    /\ IdleClassifier /\ IdleFiles

NormalizeEntity ==
    /\ pc = "mention"
    /\ clean' = normalize_entity(raw)
    /\ pc' = "normalized"
    /\ UNCHANGED <<script, rules_file, document_type_rules, text, detected_type,
                   scanned, raw, ents, entities, summary, file_path, rename,
                   os_rename, fs_path, returned, raised, record>>

NormalizeMentions ==
    /\ pc = "mentions"
    /\ entities' = normalized_entity_summary(ents)
    /\ pc' = "grouped"
    /\ UNCHANGED <<script, rules_file, document_type_rules, text, detected_type,
                   scanned, raw, clean, ents, summary, file_path, rename,
                   os_rename, fs_path, returned, raised, record>>

NextNormalize == NormalizeEntity \/ NormalizeMentions

SpecNormalize == InitNormalize /\ [][NextNormalize]_vars

-----------------------------------------------------------------------------
(* Summary builder runs: build_summary on an entity mapping *)

InitSummary ==
    /\ pc = "entities"
    /\ script = ScriptFixed
    /\ entities \in EntityInputs
    /\ ents = <<>>
    /\ summary = NoSummary
    /\ IdleClassifier /\ IdleNormalizer /\ IdleFiles

BuildSummary ==
    /\ pc = "entities"
    /\ summary' = build_summary(entities, detected_type)
    /\ pc' = "built"
    /\ UNCHANGED <<script, rules_file, document_type_rules, text, detected_type,
                   scanned, raw, clean, ents, entities, file_path, rename,
                   os_rename, fs_path, returned, raised, record>>

NextSummary == BuildSummary

SpecSummary == InitSummary /\ [][NextSummary]_vars

-----------------------------------------------------------------------------
(* Naming resolver runs: rename_file on a summary *)

InitRename ==
    /\ pc = "summary"
    /\ script \in Scripts
    /\ summary \in SummaryInputs
    /\ file_path \in FilePaths
    /\ fs_path = file_path
    /\ rename = TRUE
    /\ os_rename = "not_called"
    /\ returned = ""
    /\ raised = "none"
    /\ record = NoRecord
    /\ IdleClassifier /\ IdleNormalizer /\ IdleEntities

RenameFile ==
    /\ pc = "summary"
    /\ \E ok \in BOOLEAN :
          LET r == rename_file(file_path, summary, ok) IN
          /\ os_rename' = r.os_rename
          /\ raised' = r.raised
          /\ returned' = r.returned
          /\ fs_path' = r.fs_path
    /\ pc' = "renamed"
    /\ UNCHANGED <<script, rules_file, document_type_rules, text, detected_type,
                   scanned, raw, clean, ents, entities, summary, file_path, rename,
                   record>>

NextRename == RenameFile

SpecRename == InitRename /\ [][NextRename]_vars

-----------------------------------------------------------------------------
(* Properties of the classifier *)

\* entries all of whose keywords occur, case-insensitively, in the text
FullMatches(rules, t) ==
    {i \in 1..Len(rules) :
        \A k \in ToSet(rules[i].keywords) : IsSubstring(Lower(k), Lower(t))}

\* entries with at least one keyword occurring in the lower-cased text
PartialMatches(rules, t) ==
    {i \in 1..Len(rules) :
        \E k \in ToSet(rules[i].keywords) : IsSubstring(Lower(k), Lower(t))}

Least(S) == CHOOSE i \in S : \A j \in S : i <= j
Greatest(S) == CHOOSE i \in S : \A j \in S : j <= i

RuleDetectorDone == pc = "detected" /\ script = ScriptRules

\* C1: exact-match precedence. When R is the first entry, in iteration order,
\* all of whose keywords occur case-insensitively in the text, the detected
\* document type is R's type, whatever partial matches lie before or after R.
C1_ExactMatchPrecedence ==
    RuleDetectorDone =>
        LET full == FullMatches(document_type_rules, text)
        IN  full # {} => detected_type = document_type_rules[Least(full)].doc_type

\* a first full match with a partial-only entry before it and another after it,
\* found through a keyword or text that needs lower-casing
C1_Witness ==
    /\ RuleDetectorDone
    /\ LET full == FullMatches(document_type_rules, text)
           partial == PartialMatches(document_type_rules, text) \ full
       IN  /\ full # {}
           /\ \E j \in partial : j < Least(full)
           /\ \E j \in partial : j > Least(full)
           /\ detected_type = document_type_rules[Least(full)].doc_type
    /\ Lower(text) # text

DefaultRules ==
    <<[phrase |-> "motion to dismiss", doc_type |-> "Motion to Dismiss"],
      [phrase |-> "motion",            doc_type |-> "Motion"],
      [phrase |-> "affidavit",         doc_type |-> "Affidavit"],
      [phrase |-> "complaint",         doc_type |-> "Complaint"],
      [phrase |-> "notice of hearing", doc_type |-> "Notice of Hearing"]>>

DefaultType(t) ==
    LET hits == {i \in 1..Len(DefaultRules) : IsSubstring(DefaultRules[i].phrase, Lower(t))}
    IN  IF hits = {} THEN "Unknown" ELSE DefaultRules[Least(hits)].doc_type

\* C3: default-rule fallback. With the rule configuration absent, load_rules
\* returns an empty RuleSet and the classifier classifies with the built-in
\* ordered default list instead of answering "Unknown" for every text.
C3_DefaultRuleFallback ==
    ~rules_file.exists =>
        /\ pc # "import" => document_type_rules = <<>>
        /\ pc = "detected" => detected_type = DefaultType(text)

-----------------------------------------------------------------------------
(* Properties of the normalizer and of the summary builder *)

\* C8: Entity Normalizer idempotence. normalize_entity applied to its own
\* result changes nothing, and the normalize / drop-empty / de-duplicate /
\* sort step applied to an already normalized entity set returns that set.
C8_NormalizerIdempotent ==
    /\ pc = "normalized" => normalize_entity(clean) = clean
    /\ pc = "grouped" => normalized_entity_summary(MentionsOf(entities)) = entities

\* a mention sequence in which cleaning changed a mention, a duplicate was
\* merged and a label keeps two entries to sort
C8_Witness ==
    /\ pc = "grouped"
    /\ \E i \in 1..Len(ents) : normalize_entity(ents[i].text) # ents[i].text
    /\ Len(MentionsOf(entities)) < Len(ents)
    /\ \E l \in DOMAIN entities : Len(entities[l]) >= 2

\* s holds at least two whitespace-separated tokens
MultiWord(s) ==
    \E j \in 1..Len(s) :
        /\ CharAt(s, j) \in Whitespace
        /\ \E i \in 1..(j - 1) : CharAt(s, i) \notin Whitespace
        /\ \E k \in (j + 1)..Len(s) : CharAt(s, k) \notin Whitespace

RECURSIVE Qualifying(_)
Qualifying(items) ==
    IF items = <<>> THEN <<>>
    ELSE (IF MultiWord(Head(items)) THEN <<Head(items)>> ELSE <<>>) \o Qualifying(Tail(items))

FirstTwo(q) == SubSeq(q, 1, IF Len(q) < 2 THEN Len(q) ELSE 2)

\* C9: party selection. parties_involved is exactly the first (up to) two
\* entries with at least two whitespace-separated tokens met when scanning all
\* PERSON entries and then all ORG entries in their given order; an ORG entry
\* is taken only when fewer than two PERSON entries qualify, and fewer than two
\* qualifying entries give a shorter, possibly empty, list.
C9_PartySelection ==
    pc = "built" =>
        /\ summary.parties_involved =
              FirstTwo(Qualifying(entities.PERSON) \o Qualifying(entities.ORG))
        /\ \A i \in 1..Len(summary.parties_involved) :
              summary.parties_involved[i] \in ToSet(entities.ORG) \ ToSet(entities.PERSON)
                  => Len(Qualifying(entities.PERSON)) < 2

\* three PERSON entries of which the first is a single token, and a
\* qualifying ORG entry left out because two PERSON entries qualified
C9_Witness ==
    /\ pc = "built"
    /\ Len(entities.PERSON) = 3
    /\ ~MultiWord(entities.PERSON[1])
    /\ Len(Qualifying(entities.ORG)) >= 1
    /\ summary.parties_involved = <<entities.PERSON[2], entities.PERSON[3]>>
    /\ entities.PERSON[2] # entities.PERSON[3]

\* the candidates that parse and whose year is at least 1900
ValidDates(raw_dates) ==
    {d \in {dateparser_parse(r) : r \in ToSet(raw_dates)} :
        d # NoDateParsed /\ d.year >= 1900}

DigitValue(c) == IndexOf(c, Digits) - 1

RECURSIVE Number(_)
Number(s) ==
    IF s = "" THEN 0 ELSE 10 * Number(SubSeq(s, 1, Len(s) - 1)) + DigitValue(CharAt(s, Len(s)))

\* s has the form YYYY-MM-DD
IsIsoDate(s) ==
    /\ Len(s) = 10
    /\ \A i \in {1, 2, 3, 4, 6, 7, 9, 10} : CharAt(s, i) \in Chars(Digits)
    /\ CharAt(s, 5) = "-" /\ CharAt(s, 8) = "-"

IsoToDate(s) ==
    [year |-> Number(SubSeq(s, 1, 4)), month |-> Number(SubSeq(s, 6, 7)),
     day |-> Number(SubSeq(s, 9, 10))]

\* C10: date resolution. date_filed is the ISO-8601 form of the minimum over
\* the candidates that parse and whose year is >= 1900; candidates that fail
\* to parse or lie before 1900 never influence it, and it is null exactly
\* when no candidate survives.
C10_DateResolution ==
    pc = "built" =>
        LET valid == ValidDates(entities.DATE)
        IN  IF valid = {} THEN summary.date_filed = PyNone
            ELSE /\ summary.date_filed # PyNone
                 /\ IsIsoDate(summary.date_filed.value)
                 /\ IsoToDate(summary.date_filed.value) \in valid
                 /\ \A d \in valid : ~DateLess(d, IsoToDate(summary.date_filed.value))

\* a pre-1900 candidate first, then two valid ones of which the later is the minimum
C10_Witness ==
    /\ pc = "built"
    /\ Len(entities.DATE) = 3
    /\ dateparser_parse(entities.DATE[1]).year = 1850
    /\ Cardinality(ValidDates(entities.DATE)) = 2
    /\ summary.date_filed = PyStr("1900-01-01")
    /\ dateparser_parse(entities.DATE[3]).year = 1900

-----------------------------------------------------------------------------
(* Pipeline runs: process_document of either script, after module import *)

PipelineTexts == {"Motion to Dismiss", "Exhibit"}

\* extensions extract_text / analyze_document read
ReadableExts(sc) ==
    IF sc = ScriptRules THEN {".pdf", ".png", ".jpg", ".jpeg", ".txt"} ELSE {".txt", ".pdf"}

InitPipeline ==
    /\ pc = "start"
    /\ script \in Scripts
    /\ rules_file \in (IF script = ScriptRules
                       THEN {NoRulesFile, [exists |-> TRUE, document_types |-> SampleRules]}
                       ELSE {NoRulesFile})
    /\ document_type_rules = load_rules
    /\ file_path \in FilePaths
    /\ IF Lower(splitext_ext(file_path)) \in ReadableExts(ScriptRules)
       THEN text \in PipelineTexts /\ ents \in SeqsUpTo(MentionPool, MaxEnts)
       ELSE text = "" /\ ents = <<>>
    /\ rename \in BOOLEAN
    /\ detected_type = Unknown
    /\ scanned = 0
    /\ entities = <<>>
    /\ summary = NoSummary
    /\ fs_path = file_path
    /\ os_rename = "not_called"
    /\ returned = ""
    /\ raised = "none"
    /\ record = NoRecord
    /\ IdleNormalizer

\* process_document up to the summary: analyze_document in
\* document_type_detector.py; extract_text, nlp, the normalization loop and
\* build_summary in detect_doc_type.py
Analyze ==
    /\ pc = "start"
    /\ IF script = ScriptFixed /\ Lower(splitext_ext(file_path)) \notin ReadableExts(script)
       THEN /\ raised' = "ValueError"
            /\ pc' = "crashed"
            /\ UNCHANGED <<detected_type, scanned, entities, summary>>
       ELSE /\ detected_type' = Detected(text).detected_type
            /\ scanned' = Detected(text).scanned
            /\ entities' = (IF script = ScriptRules THEN raw_entity_summary(ents)
                            ELSE normalized_entity_summary(ents))
            /\ summary' = (IF script = ScriptRules
                           THEN analyze_summary(ents, detected_type')
                           ELSE build_summary(entities', detected_type'))
            /\ pc' = "analyzed"
            /\ UNCHANGED raised
    /\ UNCHANGED <<script, rules_file, document_type_rules, text, raw, clean, ents,
                   file_path, rename, os_rename, fs_path, returned, record>>

\* json.dump of the record to output/<name>_entities.json
Persist ==
    /\ pc = "analyzed"
    /\ record' = [filename |-> basename(file_path), written |-> TRUE,
                  summary |-> summary, entities |-> entities]
    /\ pc' = "persisted"
    /\ UNCHANGED <<script, rules_file, document_type_rules, text, detected_type,
                   scanned, raw, clean, ents, entities, summary, file_path, rename,
                   os_rename, fs_path, returned, raised>>

\* if rename: rename_file(file_path, summary), then the closing prints
Rename ==
    /\ pc = "persisted"
    /\ rename
    /\ \E ok \in BOOLEAN :
          LET r == rename_file(file_path, summary, ok) IN
          /\ os_rename' = r.os_rename
          /\ raised' = r.raised
          /\ returned' = r.returned
          /\ fs_path' = r.fs_path
          /\ pc' = (IF r.raised = "none" THEN "done" ELSE "crashed")
    /\ UNCHANGED <<script, rules_file, document_type_rules, text, detected_type,
                   scanned, raw, clean, ents, entities, summary, file_path, rename,
                   record>>

\* rename not requested: the closing prints
Finish ==
    /\ pc = "persisted"
    /\ ~rename
    /\ pc' = "done"
    /\ UNCHANGED <<script, rules_file, document_type_rules, text, detected_type,
                   scanned, raw, clean, ents, entities, summary, file_path, rename,
                   os_rename, fs_path, returned, raised, record>>

NextPipeline == Analyze \/ Persist \/ Rename \/ Finish

SpecPipeline == InitPipeline /\ [][NextPipeline]_vars

-----------------------------------------------------------------------------
(* Properties of the naming resolver and of the pipeline *)

\* the file name the naming contract prescribes for a summary
ContractName(path, s) ==
    LET client == IF "parties_involved" \in DOMAIN s /\ s.parties_involved # <<>>
                  THEN Replace(s.parties_involved[1], " ", "_") ELSE "Unknown"
        doc_type == IF "document_type" \in DOMAIN s /\ s.document_type # ""
                    THEN slugify(s.document_type) ELSE "Doc"
        date_str == IF "date_filed" \in DOMAIN s /\ s.date_filed # PyNone
                    THEN s.date_filed.value ELSE "NoDate"
    IN  client \o " - " \o doc_type \o " - Legal - " \o date_str \o splitext_ext(path)

\* C4: rename_file never raises for a summary whose parties_involved is empty
\* or absent, whose document_type is empty or absent, or whose date_filed is
\* null or absent; the composed name then uses "Unknown", "Doc" and "NoDate".
C4_RenameNeverRaises ==
    pc = "renamed" =>
        /\ raised = "none"
        /\ os_rename = "succeeded" =>
              returned = path_join(dirname(file_path), ContractName(file_path, summary))

\* C5: rename failure is non-fatal. When os.rename fails in a run with
\* renaming requested, nothing escapes rename_file, it returns the original
\* path, the source file stays where it was, and the run completes with the
\* document's record persisted.
C5_RenameFailureNonFatal ==
    os_rename = "failed" =>
        /\ raised = "none"
        /\ returned = file_path
        /\ fs_path = file_path
        /\ pc = "done"
        /\ record.written
        /\ record.filename = basename(file_path)
        /\ record.summary = summary

\* a completed run in which os.rename failed on a file inside a directory,
\* with a summary that names parties
C5_Witness ==
    /\ os_rename = "failed"
    /\ rename
    /\ pc = "done"
    /\ record.written
    /\ dirname(file_path) # ""
    /\ "parties_involved" \in DOMAIN summary

\* C6: every persisted record carries a summary that satisfies the Summary
\* data model: document_type a string, parties_involved a sequence of at most
\* two strings, date_filed null or a string of the form YYYY-MM-DD.
C6_PersistedSummaryModel ==
    record.written =>
        /\ {"document_type", "parties_involved", "date_filed"} \subseteq DOMAIN record.summary
        /\ Len(record.summary.parties_involved) <= 2
        /\ \/ record.summary.date_filed = PyNone
           \/ IsIsoDate(record.summary.date_filed.value)

\* the strings of a list are in strictly ascending order
StrictlySorted(q) == \A i \in 1..(Len(q) - 1) : StrLess(q[i], q[i + 1])

\* C7: the entities mapping of every persisted record is a normalized entity
\* set: per label no empty string, no duplicate, only cleaned strings, sorted.
C7_PersistedEntitiesNormalized ==
    record.written =>
        \A l \in DOMAIN record.entities :
            LET items == record.entities[l] IN
            /\ \A i \in 1..Len(items) : items[i] # ""
            /\ \A i \in 1..Len(items) : normalize_entity(items[i]) = items[i]
            /\ StrictlySorted(items)

====
